---- MODULE Spec2Model ----
(***************************************************************************)
(* Model of docker-entrypoint.py: the configuration resolver (load_config, *)
(* file_env, double_split_apply, rpad) and the bootstrap executor (main,   *)
(* init_with_root, setup, start).  Spec is the whole entrypoint, started    *)
(* again on the same data directory; SpecConfig is load_config alone;       *)
(* SpecFileEnv is file_env alone, called while its sources change.          *)
(*                                                                         *)
(* Text is a sequence of tokens.  The tokens "|", ":", "!", " " and "\n"   *)
(* are the characters the code looks at; every other token stands for a    *)
(* non-empty run of ordinary characters (a word).  Python's None is the    *)
(* one-token text None below, whose token no input contains.               *)
(***************************************************************************)
EXTENDS Integers, Sequences, FiniteSets, TLC

VARIABLES
    files,      \* the files the _FILE variables point to: path -> content
    fe_calls,   \* under SpecFileEnv: the calls of file_env, with what each returned
    environ,    \* os.environ of the container
    argv0,      \* the command line the container is started with
    uid0,       \* the uid the container is started with
    argv,       \* sys.argv[1:] of the running process
    uid,        \* UID of the running process
    pc,         \* position of the running process
    ENV_CACHE,  \* file_env's cache
    lc,         \* the locals of load_config when it ended
    config,     \* setup()'s config: <<>> before load_config returns, then <<PGConfig>>
    idx,        \* commands of the current sequence already issued
    calls,      \* external commands this invocation ran, with exit status
    out,        \* messages this invocation printed
    exit_code,  \* exit status of the process, -1 while it runs
    pgdata,     \* the data directory: exists, PG_VERSION, the lines appended
                \* to pg_hba.conf, the statements applied
    server,     \* the temporary server of this invocation
    pgdata0,    \* the data directory when this invocation began
    done,       \* milestones earlier invocations completed
    runs        \* invocations so far

vars == <<files, fe_calls, environ, argv0, uid0, argv, uid, pc, ENV_CACHE, lc, config, idx,
          calls, out, exit_code, pgdata, server, pgdata0, done, runs>>

\* ------------------------------------------------------------------ text

None == <<"<None>">>

IsSpace(t) == t \in {" ", "\n"}

RECURSIVE LStrip(_)
LStrip(s) == IF s # <<>> /\ IsSpace(Head(s)) THEN LStrip(Tail(s)) ELSE s

RECURSIVE RStrip(_)
RStrip(s) ==
    IF s # <<>> /\ IsSpace(s[Len(s)]) THEN RStrip(SubSeq(s, 1, Len(s) - 1)) ELSE s

\* str.strip()
Strip(s) == RStrip(LStrip(s))

\* str.split(sep): "" gives [""], "a|" gives ["a", ""]
RECURSIVE SplitAcc(_, _, _)
SplitAcc(s, sep, cur) ==
    IF s = <<>> THEN <<cur>>
    ELSE IF Head(s) = sep THEN <<cur>> \o SplitAcc(Tail(s), sep, <<>>)
    ELSE SplitAcc(Tail(s), sep, Append(cur, Head(s)))

Split(s, sep) == SplitAcc(s, sep, <<>>)

\* bool(x) of an optional text
Truthy(v) == v # None /\ v # <<>>

\* '{}'.format(x)
Str(v) == IF v = None THEN <<"None">> ELSE v

\* shlex.split on text without quotes or escapes: the whitespace-separated words
RECURSIVE ShlexAcc(_, _)
ShlexAcc(s, cur) ==
    IF s = <<>> THEN (IF cur = <<>> THEN <<>> ELSE <<cur>>)
    ELSE IF IsSpace(Head(s))
         THEN (IF cur = <<>> THEN <<>> ELSE <<cur>>) \o ShlexAcc(Tail(s), <<>>)
    ELSE ShlexAcc(Tail(s), Append(cur, Head(s)))

shlex_split(s) == ShlexAcc(s, <<>>)

\* rpad padding with the empty text in place of pad
rpad_PadEmpty(lst, n, pad) ==
    IF Len(lst) >= n THEN lst
    ELSE lst \o [i \in 1..(n - Len(lst)) |-> <<>>]

\* rpad(lst, n, pad)
rpad(lst, n, pad) ==
    IF Len(lst) >= n THEN lst
    ELSE lst \o [i \in 1..(n - Len(lst)) |-> pad]

\* ----------------------------------------------------------- environment

\* An environment key: base name, index suffix (-1: none), _FILE suffix
Key(base) == [base |-> base, idx |-> -1, file |-> FALSE]
KeyX(base, i) == [base |-> base, idx |-> i, file |-> FALSE]
FileVar(var) == [var EXCEPT !.file = TRUE]

\* The files of the container when it starts
Files ==
    ( <<"/run/secrets/user">> :> <<" ", "erin", "\n">> ) @@
    ( <<"/run/secrets/pw">> :> <<"s3cret", "\n">> )

\* F(x) with x evaluated once
Bind(x, F(_)) == CHOOSE r \in {F(v) : v \in {x}} : TRUE

\* file_env.inner() without the test for var and var_FILE both set
file_env_inner_NoDoubleCheck(env, var, default) ==
    LET file_var == FileVar(var) IN
    IF var \in DOMAIN env
    THEN [val |-> Strip(env[var]), status |-> "ok"]
    ELSE IF file_var \in DOMAIN env
    THEN IF env[file_var] \in DOMAIN files
         THEN [val |-> Strip(files[env[file_var]]), status |-> "ok"]
         ELSE [val |-> None, status |-> "exception"]
    ELSE [val |-> default, status |-> "ok"]

\* file_env.inner(): [val, status]
file_env_inner(env, var, default) ==
    LET file_var == FileVar(var) IN
    IF var \in DOMAIN env /\ file_var \in DOMAIN env
    THEN [val |-> None, status |-> "error_exit"]
    ELSE IF var \in DOMAIN env
    THEN [val |-> Strip(env[var]), status |-> "ok"]
    ELSE IF file_var \in DOMAIN env
    THEN IF env[file_var] \in DOMAIN files
         THEN [val |-> Strip(files[env[file_var]]), status |-> "ok"]
         ELSE [val |-> None, status |-> "exception"]
    ELSE [val |-> default, status |-> "ok"]

\* file_env calling inner() on every call
file_env_NoCache(cache, env, var, default) ==
    Bind(file_env_inner(env, var, default), LAMBDA r :
         IF r.status = "ok"
         THEN [cache |-> (var :> r.val) @@ cache, val |-> r.val, status |-> "ok",
               read |-> TRUE]
         ELSE [cache |-> cache, val |-> None, status |-> r.status, read |-> TRUE])

\* file_env(var, default): [cache, val, status, read]; read says that inner()
\* ran, which is where the environment and the file are looked at
file_env(cache, env, var, default) ==
    IF var \in DOMAIN cache
    THEN [cache |-> cache, val |-> cache[var], status |-> "ok", read |-> FALSE]
    ELSE Bind(file_env_inner(env, var, default), LAMBDA r :
         IF r.status = "ok"
         THEN [cache |-> (var :> r.val) @@ cache, val |-> r.val, status |-> "ok",
               read |-> TRUE]
         ELSE [cache |-> cache, val |-> None, status |-> r.status, read |-> TRUE])

\* -------------------------------------------------------------- load_config

PGUser(name, password, superuser) ==
    [name |-> name, password |-> password, superuser |-> superuser]
PGDatabase(name, owner) == [name |-> name, owner |-> owner]
PGDbConf(name, value) == [name |-> name, value |-> value]

\* The locals of load_config at its start.  status is "ok" while it runs,
\* "error_exit" after error_exit, "exception" after an uncaught exception;
\* val is the value of the last file_env call; regs lists the calls of
\* add_user and add_database in the order they were made.
Locals(cache) ==
    [status |-> "ok", msg |-> "", cache |-> cache, val |-> None,
     seen_users |-> {}, seen_databases |-> {}, postgres_password |-> None,
     databases |-> <<>>, users |-> <<>>, init_args |-> <<>>, db_config |-> <<>>,
     regs |-> <<>>]

Fail(acc, status, msg) == [acc EXCEPT !.status = status, !.msg = msg]

\* a call of file_env inside load_config
Read(acc0, env, var, default) ==
    Bind(acc0, LAMBDA acc :
    IF acc.status # "ok" THEN acc
    ELSE Bind(file_env(acc.cache, env, var, default), LAMBDA r :
         IF r.status = "ok"
         THEN [acc EXCEPT !.cache = r.cache, !.val = r.val]
         ELSE Fail([acc EXCEPT !.val = None], r.status,
                   IF r.status = "error_exit" THEN "only one allowed" ELSE "IOError")))

\* add_user without the test of seen_users
add_user_NoSeenCheck(acc0, name, password, superuser) ==
    Bind(acc0, LAMBDA acc :
    IF acc.status # "ok" THEN acc
    ELSE
    Bind([acc EXCEPT !.regs = Append(@, [kind |-> "user", name |-> name,
                                        arg |-> password, superuser |-> superuser])],
    LAMBDA a :
        IF name = <<"postgres">>
        THEN IF ~superuser
             THEN Fail(a, "error_exit", "cannot change postgres to a non-superuser")
             ELSE [a EXCEPT !.postgres_password = password,
                            !.seen_users = @ \cup {name}]
        ELSE [a EXCEPT !.users = Append(@, PGUser(name, password, superuser)),
                       !.seen_users = @ \cup {name}]))

\* add_user appending 'postgres' to users like any other user
add_user_NoRedirect(acc0, name, password, superuser) ==
    Bind(acc0, LAMBDA acc :
    IF acc.status # "ok" THEN acc
    ELSE
    Bind([acc EXCEPT !.regs = Append(@, [kind |-> "user", name |-> name,
                                        arg |-> password, superuser |-> superuser])],
    LAMBDA a :
        IF name \in a.seen_users
        THEN Fail(a, "error_exit", "user registered twice")
        ELSE IF name = <<"postgres">> /\ ~superuser
        THEN Fail(a, "error_exit", "cannot change postgres to a non-superuser")
        ELSE [a EXCEPT !.users = Append(@, PGUser(name, password, superuser)),
                       !.postgres_password = IF name = <<"postgres">> THEN password ELSE @,
                       !.seen_users = @ \cup {name}]))

add_user(acc0, name, password, superuser) ==
    Bind(acc0, LAMBDA acc :
    IF acc.status # "ok" THEN acc
    ELSE
    Bind([acc EXCEPT !.regs = Append(@, [kind |-> "user", name |-> name,
                                        arg |-> password, superuser |-> superuser])],
    LAMBDA a :
        IF name \in a.seen_users
        THEN Fail(a, "error_exit", "user registered twice")
        ELSE IF name = <<"postgres">>
        THEN IF ~superuser
             THEN Fail(a, "error_exit", "cannot change postgres to a non-superuser")
             ELSE [a EXCEPT !.postgres_password = password,
                            !.seen_users = @ \cup {name}]
        ELSE [a EXCEPT !.users = Append(@, PGUser(name, password, superuser)),
                       !.seen_users = @ \cup {name}]))

add_database(acc0, name, owner) ==
    Bind(acc0, LAMBDA acc :
    IF acc.status # "ok" THEN acc
    ELSE
    Bind([acc EXCEPT !.regs = Append(@, [kind |-> "database", name |-> name,
                                        arg |-> owner, superuser |-> FALSE])],
    LAMBDA a :
        IF name = <<"postgres">>
        THEN IF owner # None /\ owner # <<"postgres">>
             THEN Fail(a, "error_exit", "cannot change owner of database postgres")
             ELSE a
        ELSE IF name \in a.seen_databases
        THEN Fail(a, "error_exit", "database registered twice")
        ELSE [a EXCEPT !.databases = Append(@, PGDatabase(name, owner)),
                       !.seen_databases = @ \cup {name}]))

add_user_from_multi(acc, name, password) ==
    IF name # <<>> /\ Head(name) = "!"
    THEN add_user(acc, Strip(Tail(name)), password, TRUE)
    ELSE add_user(acc, name, password, FALSE)

\* func(*args) for the three callables double_split_apply is given, each of
\* which takes exactly two arguments
Call(acc, func, args) ==
    IF Len(args) # 2 THEN Fail(acc, "exception", "TypeError")
    ELSE CASE func = "add_user_from_multi" -> add_user_from_multi(acc, args[1], args[2])
           [] func = "add_database" -> add_database(acc, args[1], args[2])
           [] func = "db_config.append" ->
                [acc EXCEPT !.db_config = Append(@, PGDbConf(args[1], args[2]))]

\* (x.strip() for x in text.split(sep) if x)
StripEach(seq) == [i \in 1..Len(seq) |-> Strip(seq[i])]
NonEmptyParts(text, sep) == StripEach(SelectSeq(Split(text, sep), LAMBDA x : x # <<>>))

\* the loop of double_split_apply over the specs
RECURSIVE ApplySpecs(_, _, _, _)
ApplySpecs(acc0, specs0, func, pad_len) ==
    Bind(<<acc0, specs0>>, LAMBDA p :
    IF p[2] = <<>> \/ p[1].status # "ok" THEN p[1]
    ELSE Bind(rpad(StripEach(Split(Head(p[2]), ":")), pad_len, None), LAMBDA args :
         ApplySpecs(Call(p[1], func, args), Tail(p[2]), func, pad_len)))

double_split_apply(acc, env, var, func, pad_len) ==
    Bind(Read(acc, env, var, <<>>), LAMBDA r :
    IF r.status # "ok" THEN r
    ELSE ApplySpecs(r, NonEmptyParts(r.val, "|"), func, pad_len))

\* for db in (...): add_database(db, user)
RECURSIVE AddDatabases(_, _, _)
AddDatabases(acc0, dbs0, user) ==
    Bind(<<acc0, dbs0>>, LAMBDA p :
    IF p[2] = <<>> \/ p[1].status # "ok" THEN p[1]
    ELSE AddDatabases(add_database(p[1], Head(p[2]), user), Tail(p[2]), user))

\* one pass of the loop over POSTGRES_USER_i, after its break test
IndexedPass(acc, env, i) ==
    Bind(Read(acc, env, KeyX("POSTGRES_USER", i), None), LAMBDA user :
    Bind(Read(user, env, KeyX("POSTGRES_PASSWORD", i), None), LAMBDA pw :
    Bind(Read(pw, env, KeyX("POSTGRES_SUPERUSER", i), None), LAMBDA su :
    Bind(Read(add_user(su, user.val, pw.val, su.val = <<"1">>),
              env, KeyX("POSTGRES_DATABASES", i), <<>>), LAMBDA dbs :
    IF dbs.status # "ok" THEN dbs
    ELSE AddDatabases(dbs, NonEmptyParts(dbs.val, "|"), user.val)))))

\* the loop with continue in place of break, up to index 3
RECURSIVE IndexedLoop_Continue(_, _, _)
IndexedLoop_Continue(acc, env, i) ==
    Bind(Read(acc, env, KeyX("POSTGRES_USER", i), None), LAMBDA r :
    IF r.status # "ok" \/ i > 3 THEN r
    ELSE IF r.val = None THEN IndexedLoop_Continue(r, env, i + 1)
    ELSE IndexedLoop_Continue(IndexedPass(r, env, i), env, i + 1))

\* for i in itertools.count(): the loop ends at the first i with no user
RECURSIVE IndexedLoop(_, _, _)
IndexedLoop(acc, env, i) ==
    Bind(Read(acc, env, KeyX("POSTGRES_USER", i), None), LAMBDA r :
    IF r.status # "ok" \/ r.val = None THEN r
    ELSE IndexedLoop(IndexedPass(r, env, i), env, i + 1))

\* if file_env('POSTGRES_USER') is not None: add_user(...)
SingleUser(acc, env) ==
    Bind(Read(acc, env, Key("POSTGRES_USER"), None), LAMBDA u :
    IF u.status # "ok" \/ u.val = None THEN u
    ELSE Bind(Read(u, env, Key("POSTGRES_PASSWORD"), None), LAMBDA pw :
         add_user(pw, u.val, pw.val, TRUE)))

\* if file_env('POSTGRES_DATABASE') is not None: add_database(...)
SingleDatabase(acc, env) ==
    Bind(Read(acc, env, Key("POSTGRES_DATABASE"), None), LAMBDA d :
    IF d.status # "ok" \/ d.val = None THEN d
    ELSE Bind(Read(d, env, Key("POSTGRES_USER"), None), LAMBDA u :
         add_database(u, u.val, u.val)))

\* init_args = shlex.split(file_env('POSTGRES_INITDB_ARGS', default=''))
InitArgs(acc, env) ==
    Bind(Read(acc, env, Key("POSTGRES_INITDB_ARGS"), <<>>), LAMBDA a :
    IF a.status # "ok" THEN a ELSE [a EXCEPT !.init_args = shlex_split(a.val)])

load_config(env, cache) ==
    IndexedLoop(
        double_split_apply(
            double_split_apply(
                SingleDatabase(
                    SingleUser(
                        double_split_apply(InitArgs(Locals(cache), env), env,
                                           Key("POSTGRES_CONFIGS"), "db_config.append", 0),
                        env),
                    env),
                env, Key("POSTGRES_USERS"), "add_user_from_multi", 2),
            env, Key("POSTGRES_DATABASES"), "add_database", 2),
        env, 0)

\* the PGConfig load_config returns
PGConfig(acc) ==
    [init_args |-> acc.init_args, db_config |-> acc.db_config,
     postgres_password |-> acc.postgres_password,
     users |-> acc.users, databases |-> acc.databases]

\* -------------------------------------------------------------------- setup

PGDATA == <<"/var/lib/postgresql/data">>
PGUID == <<"postgres">>
PGRUNDIR == <<"/var/run/postgresql">>

\* 'postgres' as sys.argv[1], character by character
PostgresCmd == <<"p", "o", "s", "t", "g", "r", "e", "s">>

\* print_trust_warning and the other messages
WARNING == "WARNING: No password has been set for the database."
SKIPPING == "database already created, skipping setup"
COMPLETE == "PostgreSQL init process complete; ready for start up."
NO_COMMAND == "No command given. At least 'postgres' must be specified to start the database"
INDEX_ERROR == "IndexError: string index out of range"

\* add_trust(name) and the catch-all line
add_trust(name) == <<"host all ">> \o Str(name) \o <<" all trust", "\n">>
Md5Line == <<"host all all all md5", "\n">>

\* the loop with 'not user_config.password' in place of the comparison with ''
RECURSIVE UserTrust_Falsy(_)
UserTrust_Falsy(users) ==
    IF users = <<>> THEN <<>>
    ELSE (IF ~Truthy(Head(users).password) THEN <<add_trust(Head(users).name)>> ELSE <<>>)
         \o UserTrust_Falsy(Tail(users))

\* for user_config in config.users: if user_config.password == '': add_trust(...)
RECURSIVE UserTrust(_)
UserTrust(users) ==
    IF users = <<>> THEN <<>>
    ELSE (IF Head(users).password = <<>> THEN <<add_trust(Head(users).name)>> ELSE <<>>)
         \o UserTrust(Tail(users))

\* the lines setup() appends to pg_hba.conf
HbaLines(cfg) ==
    (IF cfg.postgres_password = <<>> THEN <<add_trust(<<"postgres">>)>> ELSE <<>>)
    \o UserTrust(cfg.users) \o <<Md5Line>>

any_trust(cfg) ==
    \/ cfg.postgres_password = <<>>
    \/ \E i \in 1..Len(cfg.users) : cfg.users[i].password = <<>>

\* psql(sql, *args) and psql_db(db, sql, *args): the command line and stdin
psql(sql) == [args |-> << <<"--username">>, <<"postgres">> >>, sql |-> sql]
psql_db(db, sql) ==
    [args |-> << <<"--username">>, <<"postgres">>, <<"--dbname">>, db >>, sql |-> sql]

REVOKE == <<"REVOKE ALL ON schema public FROM public">>

AlterPostgres(cfg) ==
    IF Truthy(cfg.postgres_password)
    THEN <<psql(<<"ALTER USER \"postgres\" WITH SUPERUSER PASSWORD '">>
                \o cfg.postgres_password \o <<"'">>)>>
    ELSE <<>>

\* CreateUser with 'is not None' in place of the truth value of the password
CreateUser_ClauseIfNotNone(user_config) ==
    LET pass_clause == IF user_config.password # None
                       THEN <<"PASSWORD '">> \o user_config.password \o <<"'">>
                       ELSE <<>>
        super_clause == IF user_config.superuser THEN <<"SUPERUSER">> ELSE <<>>
    IN  psql(<<"CREATE USER \"">> \o Str(user_config.name) \o <<"\" WITH ">>
             \o pass_clause \o <<" ">> \o super_clause)

CreateUser(user_config) ==
    LET pass_clause == IF Truthy(user_config.password)
                       THEN <<"PASSWORD '">> \o user_config.password \o <<"'">>
                       ELSE <<>>
        super_clause == IF user_config.superuser THEN <<"SUPERUSER">> ELSE <<>>
    IN  psql(<<"CREATE USER \"">> \o Str(user_config.name) \o <<"\" WITH ">>
             \o pass_clause \o <<" ">> \o super_clause)

CreateDatabase(db_config) ==
    LET owner_clause == IF Truthy(db_config.owner)
                        THEN <<"WITH OWNER \"">> \o db_config.owner \o <<"\"">>
                        ELSE <<>>
    IN  << psql(<<"CREATE DATABASE \"">> \o Str(db_config.name) \o <<"\" ">> \o owner_clause),
           psql_db(db_config.name, REVOKE) >>
        \o (IF Truthy(db_config.owner)
            THEN <<psql_db(db_config.name,
                           <<"GRANT ALL ON schema public TO \"">> \o db_config.owner \o <<"\"">>)>>
            ELSE <<>>)

AlterSystem(setting) ==
    psql(<<"ALTER SYSTEM SET ">> \o Str(setting.name) \o <<" = \"">>
         \o Str(setting.value) \o <<"\"">>)

RECURSIVE CreateDatabases(_)
CreateDatabases(dbs) ==
    IF dbs = <<>> THEN <<>> ELSE CreateDatabase(Head(dbs)) \o CreateDatabases(Tail(dbs))

\* Statements with the loop over config.databases before the one over config.users
Statements_DatabasesFirst(cfg) ==
    AlterPostgres(cfg)
    \o <<psql_db(<<"postgres">>, REVOKE)>>
    \o CreateDatabases(cfg.databases)
    \o [i \in 1..Len(cfg.users) |-> CreateUser(cfg.users[i])]
    \o [i \in 1..Len(cfg.db_config) |-> AlterSystem(cfg.db_config[i])]

\* Statements with the loop over config.db_config first
Statements_SettingsFirst(cfg) ==
    [i \in 1..Len(cfg.db_config) |-> AlterSystem(cfg.db_config[i])]
    \o AlterPostgres(cfg)
    \o [i \in 1..Len(cfg.users) |-> CreateUser(cfg.users[i])]
    \o <<psql_db(<<"postgres">>, REVOKE)>>
    \o CreateDatabases(cfg.databases)

\* the psql calls of setup(), in the order it makes them
Statements(cfg) ==
    AlterPostgres(cfg)
    \o [i \in 1..Len(cfg.users) |-> CreateUser(cfg.users[i])]
    \o <<psql_db(<<"postgres">>, REVOKE)>>
    \o CreateDatabases(cfg.databases)
    \o [i \in 1..Len(cfg.db_config) |-> AlterSystem(cfg.db_config[i])]

\* the check_calls of init_with_root, in order
RootCalls ==
    << [cmd |-> "mkdir", args |-> << <<"-p">>, PGDATA >>],
       [cmd |-> "chown", args |-> << <<"-R">>, PGUID, PGDATA >>],
       [cmd |-> "chmod", args |-> << <<"700">>, PGDATA >>],
       [cmd |-> "mkdir", args |-> << <<"-p">>, PGRUNDIR >>],
       [cmd |-> "chown", args |-> << <<"-R">>, PGUID, PGRUNDIR >>],
       [cmd |-> "chmod", args |-> << <<"g+s">>, PGRUNDIR >>] >>

\* --------------------------------------------------------------- the process

\* one external command: who ran it, the command line, stdin, exit status
Ran(by, cmd, args, input, rc) ==
    [by |-> by, cmd |-> cmd, args |-> args, input |-> input, rc |-> rc]

\* the process ends with exit status 1: sys.exit(1) or an uncaught exception
Exit1 == pc' = "exited" /\ exit_code' = 1

NoLocals == [Locals(<<>>) EXCEPT !.status = "none"]

\* main() up to the dispatch on cmd
Main ==
    /\ pc = "main"
    /\ IF Len(argv) < 1
       THEN /\ out' = out \cup {NO_COMMAND}
            /\ Exit1
            /\ UNCHANGED argv
       ELSE IF Len(argv[1]) < 2
       THEN \* sys.argv[1][1]: IndexError, uncaught
            /\ out' = out \cup {INDEX_ERROR}
            /\ Exit1
            /\ UNCHANGED argv
       ELSE LET args == IF argv[1][2] = "-" THEN <<PostgresCmd>> \o argv ELSE argv
                cmd  == args[1]
            IN  /\ argv' = args
                /\ pc' = IF cmd = PostgresCmd /\ uid = 0 THEN "init_with_root"
                         ELSE IF cmd = PostgresCmd THEN "setup"
                         ELSE "start"
                /\ UNCHANGED <<out, exit_code>>
    /\ UNCHANGED <<files, fe_calls, environ, argv0, uid0, uid, ENV_CACHE, lc, config, idx, calls,
                   pgdata, server, pgdata0, done, runs>>

\* init_with_root: the next check_call
RootCall ==
    /\ pc = "init_with_root"
    /\ idx < Len(RootCalls)
    /\ \E rc \in {0, 1} :
        /\ calls' = Append(calls, Ran("init_with_root", RootCalls[idx + 1].cmd,
                                      RootCalls[idx + 1].args, <<>>, rc))
        /\ IF rc = 0
           THEN /\ idx' = idx + 1
                /\ pgdata' = IF idx = 0 THEN [pgdata EXCEPT !.exists = TRUE] ELSE pgdata
                /\ UNCHANGED <<pc, exit_code>>
           ELSE /\ Exit1
                /\ UNCHANGED <<idx, pgdata>>
    /\ UNCHANGED <<files, fe_calls, environ, argv0, uid0, argv, uid, ENV_CACHE, lc, config, out,
                   server, pgdata0, done, runs>>

\* init_with_root: os.execlp('gosu', 'gosu', PGUID, *sys.argv)
Gosu ==
    /\ pc = "init_with_root"
    /\ idx = Len(RootCalls)
    /\ \E ok \in BOOLEAN :
        IF ok
        THEN /\ uid' = 999
             /\ pc' = "main"
             /\ idx' = 0
             /\ ENV_CACHE' = <<>>
             /\ UNCHANGED exit_code
        ELSE /\ Exit1
             /\ UNCHANGED <<uid, idx, ENV_CACHE>>
    /\ UNCHANGED <<files, fe_calls, environ, argv0, uid0, argv, lc, config, calls, out, pgdata,
                   server, pgdata0, done, runs>>

\* setup: check_call(['mkdir', '-p', PGDATA]); mkdir -p of an existing
\* directory succeeds
SetupMkdir ==
    /\ pc = "setup"
    /\ \E rc \in (IF pgdata.exists THEN {0} ELSE {0, 1}) :
        /\ calls' = Append(calls, Ran("setup", "mkdir", << <<"-p">>, PGDATA >>, <<>>, rc))
        /\ IF rc = 0
           THEN /\ pgdata' = [pgdata EXCEPT !.exists = TRUE]
                /\ pc' = "chown"
                /\ UNCHANGED exit_code
           ELSE /\ Exit1
                /\ UNCHANGED pgdata
    /\ UNCHANGED <<files, fe_calls, environ, argv0, uid0, argv, uid, ENV_CACHE, lc, config, idx, out,
                   server, pgdata0, done, runs>>

\* SetupChown going on to the guard, with no chmod
SetupChown_NoChmod ==
    /\ pc = "chown"
    /\ \E rc \in {0, 1} :
        calls' = Append(calls, Ran("setup", "chown", << <<"-R">>, PGUID, PGDATA >>, <<>>, rc))
    /\ pc' = "guard"
    /\ UNCHANGED <<files, fe_calls, environ, argv0, uid0, argv, uid, ENV_CACHE, lc, config,
                   idx, out, exit_code, pgdata, server, pgdata0, done, runs>>

\* setup: call(['chown', '-R', PGUID, PGDATA], stderr=devnull)
SetupChown ==
    /\ pc = "chown"
    /\ \E rc \in {0, 1} :
        calls' = Append(calls, Ran("setup", "chown", << <<"-R">>, PGUID, PGDATA >>, <<>>, rc))
    /\ pc' = "chmod"
    /\ UNCHANGED <<files, fe_calls, environ, argv0, uid0, argv, uid, ENV_CACHE, lc, config, idx, out,
                   exit_code, pgdata, server, pgdata0, done, runs>>

\* setup: call(['chmod', '700', PGDATA], stderr=devnull)
SetupChmod ==
    /\ pc = "chmod"
    /\ \E rc \in {0, 1} :
        calls' = Append(calls, Ran("setup", "chmod", << <<"700">>, PGDATA >>, <<>>, rc))
    /\ pc' = "guard"
    /\ UNCHANGED <<files, fe_calls, environ, argv0, uid0, argv, uid, ENV_CACHE, lc, config, idx, out,
                   exit_code, pgdata, server, pgdata0, done, runs>>

\* Guard without its return: setup goes on though PG_VERSION exists
Guard_NeverSkips ==
    /\ pc = "guard"
    /\ out' = IF pgdata.PG_VERSION THEN out \cup {SKIPPING} ELSE out
    /\ pc' = "load_config"
    /\ UNCHANGED <<files, fe_calls, environ, argv0, uid0, argv, uid, ENV_CACHE, lc, config, idx, calls,
                   exit_code, pgdata, server, pgdata0, done, runs>>

\* Guard testing the data directory in place of the file PG_VERSION in it
Guard_DirExists ==
    /\ pc = "guard"
    /\ IF pgdata.exists
       THEN /\ out' = out \cup {SKIPPING}
            /\ pc' = "start"
       ELSE /\ pc' = "load_config"
            /\ UNCHANGED out
    /\ UNCHANGED <<files, fe_calls, environ, argv0, uid0, argv, uid, ENV_CACHE, lc, config, idx, calls,
                   exit_code, pgdata, server, pgdata0, done, runs>>

\* setup: if path.isfile(path.join(PGDATA, 'PG_VERSION')): print; return
Guard ==
    /\ pc = "guard"
    /\ IF pgdata.PG_VERSION
       THEN /\ out' = out \cup {SKIPPING}
            /\ pc' = "start"
       ELSE /\ pc' = "load_config"
            /\ UNCHANGED out
    /\ UNCHANGED <<files, fe_calls, environ, argv0, uid0, argv, uid, ENV_CACHE, lc, config, idx, calls,
                   exit_code, pgdata, server, pgdata0, done, runs>>

\* LoadConfig with an error_exit that prints and does not exit
LoadConfig_IgnoreError ==
    /\ pc = "load_config"
    /\ \E r \in {load_config(environ, ENV_CACHE)} :
        /\ lc' = r
        /\ ENV_CACHE' = r.cache
        /\ config' = <<PGConfig(r)>>
        /\ pc' = "initdb"
        /\ out' = IF r.status = "ok" THEN out ELSE out \cup {r.msg}
        /\ UNCHANGED exit_code
    /\ UNCHANGED <<files, fe_calls, environ, argv0, uid0, argv, uid, idx, calls, pgdata, server,
                   pgdata0, done, runs>>

\* setup: config = load_config()
LoadConfig ==
    /\ pc = "load_config"
    /\ \E r \in {load_config(environ, ENV_CACHE)} :
        /\ lc' = r
        /\ ENV_CACHE' = r.cache
        /\ IF r.status = "ok"
           THEN /\ config' = <<PGConfig(r)>>
                /\ pc' = "initdb"
                /\ UNCHANGED <<out, exit_code>>
           ELSE /\ out' = out \cup {r.msg}
                /\ Exit1
                /\ UNCHANGED config
    /\ UNCHANGED <<files, fe_calls, environ, argv0, uid0, argv, uid, idx, calls, pgdata, server,
                   pgdata0, done, runs>>

\* setup: check_call(['initdb', '--username=postgres'] + config.init_args);
\* initdb writes PG_VERSION and a fresh pg_hba.conf
Initdb ==
    /\ pc = "initdb"
    /\ \E rc \in {0, 1} :
        /\ calls' = Append(calls, Ran("setup", "initdb",
                                      << <<"--username=postgres">> >> \o config[1].init_args,
                                      <<>>, rc))
        /\ IF rc = 0
           THEN /\ pgdata' = [pgdata EXCEPT !.PG_VERSION = TRUE, !.pg_hba = <<>>]
                /\ pc' = "pg_hba"
                /\ UNCHANGED exit_code
           ELSE /\ Exit1
                /\ UNCHANGED pgdata
    /\ UNCHANGED <<files, fe_calls, environ, argv0, uid0, argv, uid, ENV_CACHE, lc, config, idx, out,
                   server, pgdata0, done, runs>>

\* setup: the append to pg_hba.conf and the warning
WriteHba ==
    /\ pc = "pg_hba"
    /\ pgdata' = [pgdata EXCEPT !.pg_hba = @ \o HbaLines(config[1])]
    /\ out' = IF any_trust(config[1]) THEN out \cup {WARNING} ELSE out
    /\ pc' = "pg_ctl_start"
    /\ UNCHANGED <<files, fe_calls, environ, argv0, uid0, argv, uid, ENV_CACHE, lc, config, idx, calls,
                   exit_code, server, pgdata0, done, runs>>

\* setup: check_call(['pg_ctl', ..., '-w', 'start'])
PgCtlStart ==
    /\ pc = "pg_ctl_start"
    /\ \E rc \in {0, 1} :
        /\ calls' = Append(calls, Ran("setup", "pg_ctl",
                                      << <<"-D">>, PGDATA, <<"-o">>,
                                         <<"-c listen_addresses='localhost'">>,
                                         <<"-w">>, <<"start">> >>, <<>>, rc))
        /\ IF rc = 0
           THEN /\ server' = "running"
                /\ pc' = "psql"
                /\ idx' = 0
                /\ UNCHANGED exit_code
           ELSE /\ Exit1
                /\ UNCHANGED <<server, idx>>
    /\ UNCHANGED <<files, fe_calls, environ, argv0, uid0, argv, uid, ENV_CACHE, lc, config, out,
                   pgdata, pgdata0, done, runs>>

\* check_call_pipe that never raises
check_call_pipe_NoRaise(retcode) == TRUE

\* check_call_pipe returns normally: if retcode: raise CalledProcessError
check_call_pipe(retcode) == retcode = 0

\* Psql running pg_ctl stop before the process ends on a failed statement
Psql_StopOnFailure ==
    /\ pc = "psql"
    /\ idx < Len(Statements(config[1]))
    /\ LET stmt == Statements(config[1])[idx + 1]
           stop == Ran("setup", "pg_ctl", << <<"-D">>, PGDATA, <<"-m">>, <<"fast">>,
                                             <<"-w">>, <<"stop">> >>, <<>>, 0)
       IN
        IF \E i \in 1..Len(stmt.args) : stmt.args[i] = None
        THEN /\ Exit1
             /\ calls' = Append(calls, stop)
             /\ server' = "stopped"
             /\ UNCHANGED <<idx, pgdata>>
        ELSE \E rc \in {0, 1} :
            /\ pgdata' = IF rc = 0 THEN [pgdata EXCEPT !.sql = Append(@, stmt)] ELSE pgdata
            /\ IF check_call_pipe(rc)
               THEN /\ calls' = Append(calls, Ran("setup", "psql",
                                          << <<"-v">>, <<"ON_ERROR_STOP=1">> >> \o stmt.args,
                                          stmt.sql, rc))
                    /\ idx' = idx + 1
                    /\ UNCHANGED <<pc, exit_code, server>>
               ELSE /\ calls' = calls \o << Ran("setup", "psql",
                                          << <<"-v">>, <<"ON_ERROR_STOP=1">> >> \o stmt.args,
                                          stmt.sql, rc), stop >>
                    /\ server' = "stopped"
                    /\ Exit1
                    /\ UNCHANGED idx
    /\ UNCHANGED <<files, fe_calls, environ, argv0, uid0, argv, uid, ENV_CACHE, lc, config,
                   out, pgdata0, done, runs>>

\* setup: the next psql call; a None on the command line is a TypeError of Popen
Psql ==
    /\ pc = "psql"
    /\ idx < Len(Statements(config[1]))
    /\ LET stmt == Statements(config[1])[idx + 1] IN
        IF \E i \in 1..Len(stmt.args) : stmt.args[i] = None
        THEN /\ Exit1
             /\ UNCHANGED <<calls, idx, pgdata>>
        ELSE \E rc \in {0, 1} :
            /\ calls' = Append(calls, Ran("setup", "psql",
                                          << <<"-v">>, <<"ON_ERROR_STOP=1">> >> \o stmt.args,
                                          stmt.sql, rc))
            /\ pgdata' = IF rc = 0 THEN [pgdata EXCEPT !.sql = Append(@, stmt)] ELSE pgdata
            /\ IF check_call_pipe(rc)
               THEN /\ idx' = idx + 1
                    /\ UNCHANGED <<pc, exit_code>>
               ELSE /\ Exit1
                    /\ UNCHANGED idx
    /\ UNCHANGED <<files, fe_calls, environ, argv0, uid0, argv, uid, ENV_CACHE, lc, config, out,
                   server, pgdata0, done, runs>>

\* PgCtlStop through call(): the exit status of pg_ctl stop is not looked at
PgCtlStop_Unchecked ==
    /\ pc = "psql"
    /\ idx = Len(Statements(config[1]))
    /\ \E rc \in {0, 1} :
        /\ calls' = Append(calls, Ran("setup", "pg_ctl",
                                      << <<"-D">>, PGDATA, <<"-m">>, <<"fast">>,
                                         <<"-w">>, <<"stop">> >>, <<>>, rc))
        /\ server' = IF rc = 0 THEN "stopped" ELSE server
    /\ out' = out \cup {COMPLETE}
    /\ pc' = "start"
    /\ UNCHANGED <<files, fe_calls, environ, argv0, uid0, argv, uid, ENV_CACHE, lc, config, idx,
                   exit_code, pgdata, pgdata0, done, runs>>

\* setup: check_call(['pg_ctl', ..., '-m', 'fast', '-w', 'stop']) and the last print
PgCtlStop ==
    /\ pc = "psql"
    /\ idx = Len(Statements(config[1]))
    /\ \E rc \in {0, 1} :
        /\ calls' = Append(calls, Ran("setup", "pg_ctl",
                                      << <<"-D">>, PGDATA, <<"-m">>, <<"fast">>,
                                         <<"-w">>, <<"stop">> >>, <<>>, rc))
        /\ IF rc = 0
           THEN /\ server' = "stopped"
                /\ out' = out \cup {COMPLETE}
                /\ pc' = "start"
                /\ UNCHANGED exit_code
           ELSE /\ Exit1
                /\ UNCHANGED <<server, out>>
    /\ UNCHANGED <<files, fe_calls, environ, argv0, uid0, argv, uid, ENV_CACHE, lc, config, idx,
                   pgdata, pgdata0, done, runs>>

\* start: os.execlp(sys.argv[1], *sys.argv[1:]); OSError when it fails
Start ==
    /\ pc = "start"
    /\ \E ok \in BOOLEAN :
        IF ok
        THEN /\ pc' = "handed_off"
             /\ UNCHANGED exit_code
        ELSE Exit1
    /\ UNCHANGED <<files, fe_calls, environ, argv0, uid0, argv, uid, ENV_CACHE, lc, config, idx, calls,
                   out, pgdata, server, pgdata0, done, runs>>

\* the commands of this invocation that exited 0, by name
Succeeded(cmd, last) ==
    \E i \in 1..Len(calls) :
        /\ calls[i].cmd = cmd
        /\ calls[i].rc = 0
        /\ calls[i].args[Len(calls[i].args)] = last

MaxRuns == 2

\* the container is started again on the same data directory: a new process,
\* nothing left of the old one but the data directory
Restart ==
    /\ pc \in {"exited", "handed_off"}
    /\ runs < MaxRuns
    /\ runs' = runs + 1
    /\ pc' = "main"
    /\ argv' = argv0
    /\ uid' = uid0
    /\ ENV_CACHE' = <<>>
    /\ lc' = NoLocals
    /\ config' = <<>>
    /\ idx' = 0
    /\ calls' = <<>>
    /\ out' = {}
    /\ exit_code' = -1
    /\ server' = "none"
    /\ pgdata0' = pgdata
    /\ done' = done \cup {m \in {"initdb", "stop"} :
                            IF m = "initdb" THEN \E i \in 1..Len(calls) :
                                                    calls[i].cmd = "initdb" /\ calls[i].rc = 0
                            ELSE Succeeded("pg_ctl", <<"stop">>)}
    /\ UNCHANGED <<files, fe_calls, environ, argv0, uid0, pgdata>>

\* ------------------------------------------------------------------ inputs

Opt(var, vals) == {<<>>} \cup {var :> v : v \in vals}
Join(A, B) == {a @@ b : a \in A, b \in B}

UsersExample == <<"alice", ":", "secret", "|", "!", "bob", ":">>
DatabasesExample == <<"d1", ":", "alice", "|", "d2">>

\* POSTGRES_USERS=alice:secret|!bob: POSTGRES_DATABASES=d1:alice|d2
EnvPipeExample ==
    (Key("POSTGRES_USERS") :> UsersExample) @@ (Key("POSTGRES_DATABASES") :> DatabasesExample)

\* POSTGRES_USER_0=carol POSTGRES_DATABASES_0=x|y POSTGRES_USER_2=dave
EnvGapExample ==
    (KeyX("POSTGRES_USER", 0) :> <<"carol">>)
    @@ (KeyX("POSTGRES_DATABASES", 0) :> <<"x", "|", "y">>)
    @@ (KeyX("POSTGRES_USER", 2) :> <<"dave">>)

SingleEnvs ==
    Join(Join(Join(Opt(Key("POSTGRES_USER"), {<<"postgres">>, <<"alice">>, <<" ", "bob", " ">>}),
                   Opt(FileVar(Key("POSTGRES_USER")), {<<"/run/secrets/user">>})),
              Opt(Key("POSTGRES_PASSWORD"), {<<>>, <<"secret">>})),
         Opt(Key("POSTGRES_DATABASE"), {<<"d1">>}))

PipeUsers ==
    { <<>>, UsersExample, <<"bob">>, <<"!", "postgres", ":", "pw">>,
      <<"postgres", ":", "pw">>, <<"!", " ", "postgres">>, <<"alice", "|", "alice">>,
      <<"carol", ":", "a", ":", "b">>, <<" ", "|", "erin", ":", " ">>,
      <<"!", "bob", ":", "pw", "|", "|", "dave">> }

PipeDatabases ==
    { DatabasesExample, <<"alice">>, <<"postgres", ":", "alice">>,
      <<"postgres", ":", "postgres", "|", "x">>, <<"x", "|", " ", "y", " ", "|", "x">> }

PipeEnvs ==
    Join(Opt(Key("POSTGRES_USERS"), PipeUsers), Opt(Key("POSTGRES_DATABASES"), PipeDatabases))

IndexedEnvs ==
    Join(Join(Join(Opt(KeyX("POSTGRES_USER", 0), {<<"carol">>, <<"alice">>, <<"postgres">>, <<>>}),
                   Opt(KeyX("POSTGRES_PASSWORD", 0), {<<>>, <<"pw0">>})),
              Join(Opt(KeyX("POSTGRES_SUPERUSER", 0), {<<"1">>}),
                   Opt(KeyX("POSTGRES_DATABASES", 0), {<<"x", "|", "y">>, <<"d1">>}))),
         Join(Join(Opt(KeyX("POSTGRES_USER", 1), {<<"carol">>, <<"bob">>}),
                   Opt(KeyX("POSTGRES_DATABASES", 1), {<<"x">>})),
              Opt(KeyX("POSTGRES_USER", 2), {<<"dave">>})))

MiscEnvs ==
    Join(Join(Opt(Key("POSTGRES_CONFIGS"),
                  {<<"max_connections", ":", "10">>, <<"fsync", ":", "off", "|", "port", ":", "5433">>,
                   <<"bad">>, <<"a", ":", "b", ":", "c">>}),
              Opt(FileVar(Key("POSTGRES_CONFIGS")), {<<"/run/secrets/pw">>})),
         Join(Join(Opt(Key("POSTGRES_INITDB_ARGS"), {<<"--data-checksums", " ", " ", "-E", " ", "UTF8">>}),
                   Opt(FileVar(Key("POSTGRES_PASSWORD")), {<<"/run/secrets/pw">>, <<"/run/secrets/none">>})),
              Opt(Key("POSTGRES_USER"), {<<"postgres">>})))

\* the keys load_config names
ConfigKeys ==
    {Key(b) : b \in {"POSTGRES_USER", "POSTGRES_PASSWORD", "POSTGRES_DATABASE",
                     "POSTGRES_USERS", "POSTGRES_DATABASES", "POSTGRES_CONFIGS",
                     "POSTGRES_INITDB_ARGS"}}
    \cup {KeyX(b, i) : b \in {"POSTGRES_USER", "POSTGRES_PASSWORD", "POSTGRES_SUPERUSER",
                               "POSTGRES_DATABASES"}, i \in 0..2}

\* X and X_FILE both set, for each key X, next to other keys set or unset
DoubleEnvs ==
    Join({(k :> <<"v">>) @@ (FileVar(k) :> f) :
             k \in ConfigKeys, f \in {<<"/run/secrets/pw">>, <<"/run/secrets/none">>}},
         { <<>>,
           Key("POSTGRES_USER") :> <<"alice">>,
           KeyX("POSTGRES_USER", 0) :> <<"carol">>,
           (KeyX("POSTGRES_USER", 0) :> <<"carol">>) @@ (KeyX("POSTGRES_USER", 1) :> <<"bob">>),
           (FileVar(Key("POSTGRES_USER")) :> <<"/run/secrets/user">>)
              @@ (Key("POSTGRES_CONFIGS") :> <<"bad">>) })

\* the environments load_config is checked on
EnvsConfig ==
    DoubleEnvs
    \cup Join(SingleEnvs, PipeEnvs)
    \cup Join(IndexedEnvs, Join(Opt(Key("POSTGRES_USERS"), {UsersExample}),
                                Opt(Key("POSTGRES_DATABASES"), {<<"x">>})))
    \cup Join(IndexedEnvs, Opt(Key("POSTGRES_USER"), {<<"postgres">>, <<"alice">>}))
    \cup MiscEnvs

\* the environments the container is started with
EnvsBoot ==
    Join(Opt(Key("POSTGRES_USER"), {<<"postgres">>, <<"alice">>}),
         Join(Opt(Key("POSTGRES_PASSWORD"), {<<>>, <<"secret">>}),
              Opt(Key("POSTGRES_DATABASE"), {<<"d1">>})))
    \cup { EnvPipeExample, EnvGapExample,
           Key("POSTGRES_USERS") :> <<"bob", "|", "!", "carol", ":">>,
           Key("POSTGRES_USERS") :> <<"alice", "|", "alice">>,
           Key("POSTGRES_USERS") :> <<"postgres", ":", "pw">>,
           Key("POSTGRES_DATABASES") :> <<"postgres", ":", "alice">>,
           Key("POSTGRES_DATABASES") :> <<"d1", ":", "ghost">>,
           (Key("POSTGRES_USER") :> <<"alice">>)
              @@ (FileVar(Key("POSTGRES_USER")) :> <<"/run/secrets/user">>),
           (Key("POSTGRES_CONFIGS") :> <<"fsync", ":", "off", "|", "port", ":", "5433">>)
              @@ (Key("POSTGRES_INITDB_ARGS") :> <<"--data-checksums", " ", "-E", " ", "UTF8">>),
           Key("POSTGRES_CONFIGS") :> <<"bad">>,
           EnvPipeExample @@ (Key("POSTGRES_CONFIGS") :> <<"fsync", ":", "off">>)
              @@ (Key("POSTGRES_USER") :> <<"postgres">>)
              @@ (Key("POSTGRES_PASSWORD") :> <<"secret">>),
           (KeyX("POSTGRES_USER", 0) :> <<"carol">>)
              @@ (KeyX("POSTGRES_PASSWORD", 0) :> <<>>)
              @@ (KeyX("POSTGRES_SUPERUSER", 0) :> <<"1">>)
              @@ (KeyX("POSTGRES_DATABASES", 0) :> <<"x">>)
              @@ (KeyX("POSTGRES_USER", 1) :> <<"postgres">>)
              @@ (KeyX("POSTGRES_SUPERUSER", 1) :> <<"1">>)
              @@ (FileVar(KeyX("POSTGRES_PASSWORD", 1)) :> <<"/run/secrets/pw">>) }

\* sys.argv[1:] the container is started with, character by character
Argvs ==
    { <<>>, <<PostgresCmd>>, << <<"-", "-", "v">> >>, << <<"-", "c">>, <<"f">> >>,
      << <<"s", "h">> >>, << <<"x">> >>, << <<"a", "-", "z">> >> }

\* ------------------------------------------------------------ specifications

Fresh == [exists |-> FALSE, PG_VERSION |-> FALSE, pg_hba |-> <<>>, sql |-> <<>>]

Init ==
    /\ files = Files
    /\ fe_calls = <<>>
    /\ environ \in EnvsBoot
    /\ argv0 \in Argvs
    /\ uid0 \in {0, 999}
    /\ argv = argv0
    /\ uid = uid0
    /\ pc = "main"
    /\ ENV_CACHE = <<>>
    /\ lc = NoLocals
    /\ config = <<>>
    /\ idx = 0
    /\ calls = <<>>
    /\ out = {}
    /\ exit_code = -1
    /\ pgdata = Fresh
    /\ server = "none"
    /\ pgdata0 = pgdata
    /\ done = {}
    /\ runs = 1

Next ==
    \/ Main
    \/ RootCall
    \/ Gosu
    \/ SetupMkdir
    \/ SetupChown
    \/ SetupChmod
    \/ Guard
    \/ LoadConfig
    \/ Initdb
    \/ WriteHba
    \/ PgCtlStart
    \/ Psql
    \/ PgCtlStop
    \/ Start
    \/ Restart

Spec == Init /\ [][Next]_vars

\* load_config alone, on every environment of EnvsConfig
InitConfig ==
    /\ files = Files
    /\ fe_calls = <<>>
    /\ environ \in EnvsConfig
    /\ argv0 = <<PostgresCmd>>
    /\ uid0 = 999
    /\ argv = argv0
    /\ uid = uid0
    /\ pc = "load_config"
    /\ ENV_CACHE = <<>>
    /\ lc = NoLocals
    /\ config = <<>>
    /\ idx = 0
    /\ calls = <<>>
    /\ out = {}
    /\ exit_code = -1
    /\ pgdata = [Fresh EXCEPT !.exists = TRUE]
    /\ server = "none"
    /\ pgdata0 = pgdata
    /\ done = {}
    /\ runs = 1

SpecConfig == InitConfig /\ [][LoadConfig]_vars

\* file_env alone: calls made one at a time, for keys and defaults of the
\* caller's choice, while the environment and the files change between calls

FileEnvKeys == {Key("POSTGRES_USER"), KeyX("POSTGRES_DATABASES", 0)}
FileEnvValues == {<<"alice">>, <<" ", "bob">>}
FileEnvContents == {<<" ", "erin", "\n">>, <<"frank">>}
MaxCalls == 3

\* one call of file_env; error_exit and the IOError of open end the process
FileEnv ==
    /\ pc = "file_env"
    /\ Len(fe_calls) < MaxCalls
    /\ \E var \in FileEnvKeys, default \in {None, <<>>} :
        \E r \in {file_env(ENV_CACHE, environ, var, default)} :
            IF r.status = "ok"
            THEN /\ ENV_CACHE' = r.cache
                 /\ fe_calls' = Append(fe_calls, [var |-> var, default |-> default,
                                                  val |-> r.val, read |-> r.read])
                 /\ UNCHANGED <<pc, exit_code>>
            ELSE /\ Exit1
                 /\ UNCHANGED <<ENV_CACHE, fe_calls>>
    /\ UNCHANGED <<files, environ, argv0, uid0, argv, uid, lc, config, idx, calls, out,
                   pgdata, server, pgdata0, done, runs>>

\* os.environ[k] = v between two calls
PutEnv ==
    /\ pc = "file_env"
    /\ \E var \in FileEnvKeys :
        \/ \E v \in FileEnvValues : environ' = (var :> v) @@ environ
        \/ /\ var = Key("POSTGRES_USER")
           /\ environ' = (FileVar(var) :> <<"/run/secrets/user">>) @@ environ
    /\ environ' # environ
    /\ UNCHANGED <<files, fe_calls, argv0, uid0, argv, uid, pc, ENV_CACHE, lc, config,
                   idx, calls, out, exit_code, pgdata, server, pgdata0, done, runs>>

\* del os.environ[k] between two calls
UnsetEnv ==
    /\ pc = "file_env"
    /\ \E k \in DOMAIN environ :
        environ' = [x \in DOMAIN environ \ {k} |-> environ[x]]
    /\ UNCHANGED <<files, fe_calls, argv0, uid0, argv, uid, pc, ENV_CACHE, lc, config,
                   idx, calls, out, exit_code, pgdata, server, pgdata0, done, runs>>

\* the file a _FILE variable points to is rewritten between two calls
WriteFile ==
    /\ pc = "file_env"
    /\ \E c \in FileEnvContents : files' = [files EXCEPT ![<<"/run/secrets/user">>] = c]
    /\ files' # files
    /\ UNCHANGED <<fe_calls, environ, argv0, uid0, argv, uid, pc, ENV_CACHE, lc, config,
                   idx, calls, out, exit_code, pgdata, server, pgdata0, done, runs>>

InitFileEnv ==
    /\ files = Files
    /\ fe_calls = <<>>
    /\ environ \in {<<>>, Key("POSTGRES_USER") :> <<"alice">>,
                     FileVar(Key("POSTGRES_USER")) :> <<"/run/secrets/user">>}
    /\ argv0 = <<PostgresCmd>>
    /\ uid0 = 999
    /\ argv = argv0
    /\ uid = uid0
    /\ pc = "file_env"
    /\ ENV_CACHE = <<>>
    /\ lc = NoLocals
    /\ config = <<>>
    /\ idx = 0
    /\ calls = <<>>
    /\ out = {}
    /\ exit_code = -1
    /\ pgdata = [Fresh EXCEPT !.exists = TRUE]
    /\ server = "none"
    /\ pgdata0 = pgdata
    /\ done = {}
    /\ runs = 1

NextFileEnv == FileEnv \/ PutEnv \/ UnsetEnv \/ WriteFile

SpecFileEnv == InitFileEnv /\ [][NextFileEnv]_vars

\* ------------------------------------------------------------------ claims

\* the invocation was given the bootstrap trigger
Triggered == argv # <<>> /\ argv[1] = PostgresCmd /\ pc # "main"

\* PG_VERSION existed when this invocation began
marker0 == pgdata0.PG_VERSION

\* initdb, pg_ctl and psql are the provisioning commands
Provisioning(c) == c.cmd \in {"initdb", "pg_ctl", "psql"}

\* C1: an invocation with the bootstrap trigger that begins with PG_VERSION
\* present runs no initdb, pg_ctl or psql, appends nothing to pg_hba.conf,
\* resolves no configuration, and goes from the guard to the handoff.
C1_IdempotentRerun ==
    (Triggered /\ marker0) =>
        /\ \A i \in 1..Len(calls) : ~Provisioning(calls[i])
        /\ pgdata.pg_hba = pgdata0.pg_hba /\ pgdata.sql = pgdata0.sql
        /\ config = <<>> /\ lc = NoLocals /\ ENV_CACHE = <<>>
        /\ server = "none"
        /\ pc \in {"init_with_root", "setup", "chown", "chmod", "guard",
                   "start", "handed_off", "exited"}
        /\ (SKIPPING \in out => pc \in {"start", "handed_off"} \/ (pc = "exited" /\ exit_code = 1))

C1_Witness == Triggered /\ marker0 /\ SKIPPING \in out /\ pc = "handed_off"

\* C2 as claimed: PG_VERSION is present when an invocation begins only if an
\* earlier invocation ran through pg_ctl stop.
C2_MarkerMeansCompleted == marker0 => "stop" \in done

\* what load_config resolves from the environment of the container
Resolved == PGConfig(load_config(environ, <<>>))

\* C2 as amended: PG_VERSION is present when an invocation begins only if an
\* earlier invocation ran initdb successfully; the skip is taken only then;
\* and every statement is applied once an invocation ran through pg_ctl stop.
C2_MarkerMeansInitdb ==
    /\ marker0 => "initdb" \in done
    /\ SKIPPING \in out => marker0
    /\ "stop" \in done => marker0 /\ pgdata.sql = Statements(Resolved)

C2_Witness ==
    /\ marker0 /\ "stop" \notin done /\ SKIPPING \in out /\ pc = "handed_off"
    /\ Len(pgdata.sql) < Len(Statements(Resolved))

\* C3: the handoff happens only with the temporary server of this invocation
\* not running: never started, or stopped by a successful pg_ctl stop.
C3_NoTwoServers ==
    pc = "handed_off" =>
        /\ server # "running"
        /\ Succeeded("pg_ctl", <<"start">>) => Succeeded("pg_ctl", <<"stop">>) /\ server = "stopped"

C3_Witness == pc = "handed_off" /\ server = "stopped"

\* the chown and chmod of setup(), run through call()
Unchecked(c) == c.by = "setup" /\ c.cmd \in {"chown", "chmod"}

\* C4 as claimed: every external command that exits nonzero is the last one
\* the process runs, and the process ends with a failure.
C4_FailFast ==
    \A i \in 1..Len(calls) :
        calls[i].rc # 0 => i = Len(calls) /\ pc = "exited" /\ exit_code = 1

\* C4 as amended: the same for every external command but the chown and
\* chmod of setup().
C4_FailFastChecked ==
    \A i \in 1..Len(calls) :
        (calls[i].rc # 0 /\ ~Unchecked(calls[i])) =>
            i = Len(calls) /\ pc = "exited" /\ exit_code = 1

C4_Witness ==
    /\ calls # <<>> /\ calls[Len(calls)].cmd = "psql" /\ calls[Len(calls)].rc # 0
    /\ \E i \in 1..Len(calls) : Unchecked(calls[i]) /\ calls[i].rc # 0

\* C5: when load_config ends in error_exit the process has exit status 1, has
\* printed the message, and has run no initdb, pg_ctl or psql and left
\* pg_hba.conf and PG_VERSION as they were: absent.
C5_ConfigErrorsFirst ==
    lc.status = "error_exit" =>
        /\ pc = "exited" /\ exit_code = 1 /\ lc.msg \in out
        /\ \A i \in 1..Len(calls) : ~Provisioning(calls[i])
        /\ ~pgdata.PG_VERSION /\ pgdata.pg_hba = <<>> /\ pgdata.sql = <<>>
        /\ server = "none" /\ config = <<>>

C5_Witness == lc.status = "error_exit" /\ lc.msg = "user registered twice" /\ uid0 = 0

\* load_config has run
Ran_load_config == lc.status # "none"

\* two registrations of one kind with one name
SameName(r1, r2) == r1.kind = r2.kind /\ r1.name = r2.name

Distinct(seq) == \A i, j \in 1..Len(seq) : i # j => seq[i].name # seq[j].name

\* C6: a second registration of a user name, or of a database name other than
\* 'postgres', by whichever schemes, is the last thing load_config does and
\* ends it in error_exit; a config it returns has pairwise distinct user names
\* and pairwise distinct database names.
C6_DuplicatesFatal ==
    Ran_load_config =>
        /\ \A i, j \in 1..Len(lc.regs) :
              ( /\ i < j
                /\ SameName(lc.regs[i], lc.regs[j])
                /\ (lc.regs[i].kind = "user" \/ lc.regs[i].name # <<"postgres">>) )
              => lc.status = "error_exit" /\ j = Len(lc.regs) /\ config = <<>>
        /\ lc.status = "ok" =>
              /\ config # <<>>
              /\ Distinct(config[1].users)
              /\ Distinct(config[1].databases)

\* a user of the single-user scheme registered again by the indexed scheme
C6_Witness ==
    /\ lc.status = "error_exit"
    /\ Key("POSTGRES_USER") \in DOMAIN environ
    /\ Key("POSTGRES_USERS") \notin DOMAIN environ
    /\ Len(lc.regs) > 1
    /\ lc.regs[Len(lc.regs)].kind = "user"
    /\ lc.regs[1].kind = "user"
    /\ lc.regs[Len(lc.regs)].name = lc.regs[1].name

\* C7: no entry of users is named 'postgres'; a registration of 'postgres' as
\* a non-superuser ends load_config in error_exit; the password registered
\* for 'postgres' is postgres_password of the config returned.
C7_PostgresNotListed ==
    Ran_load_config =>
        /\ \A i \in 1..Len(lc.users) : lc.users[i].name # <<"postgres">>
        /\ \A i \in 1..Len(lc.regs) :
              (lc.regs[i].kind = "user" /\ lc.regs[i].name = <<"postgres">>) =>
                  /\ ~lc.regs[i].superuser =>
                        lc.status = "error_exit" /\ i = Len(lc.regs) /\ config = <<>>
                  /\ lc.status = "ok" =>
                        /\ config[1].postgres_password = lc.regs[i].arg
                        /\ \A k \in 1..Len(config[1].users) :
                              config[1].users[k].name # <<"postgres">>

C7_Witness ==
    /\ lc.status = "ok"
    /\ config[1].postgres_password = <<"pw">>
    /\ config[1].users # <<>>
    /\ \E i \in 1..Len(lc.regs) : lc.regs[i].name = <<"postgres">> /\ lc.regs[i].kind = "user"

\* C8 as claimed: the example resolves bob with password None, and an empty
\* password segment yields None.
C8_ExampleAsStated ==
    (environ = EnvPipeExample /\ Ran_load_config) =>
        /\ lc.status = "ok"
        /\ config[1].users = << PGUser(<<"alice">>, <<"secret">>, FALSE),
                                PGUser(<<"bob">>, None, TRUE) >>
        /\ config[1].databases = << PGDatabase(<<"d1">>, <<"alice">>),
                                    PGDatabase(<<"d2">>, None) >>

\* only the pipe-delimited scheme registers users
OnlyPipeUsers ==
    /\ Key("POSTGRES_USERS") \in DOMAIN environ
    /\ \A k \in DOMAIN environ : k.base # "POSTGRES_USER"

HasColon(entry) == \E k \in 1..Len(entry) : entry[k] = ":"
Bang(entry) == entry # <<>> /\ Head(entry) = "!"
UserRegs == SelectSeq(lc.regs, LAMBDA r : r.kind = "user")

\* C8 as amended: the example resolves bob with the empty password; each
\* non-empty entry yields one user in declared order, a leading '!' sets
\* superuser and is not part of the name, an entry without ':' yields password
\* None and an entry with nothing after its ':' yields the empty password.
C8_PipeParsing ==
    /\ (environ = EnvPipeExample /\ Ran_load_config) =>
          /\ lc.status = "ok"
          /\ config[1].users = << PGUser(<<"alice">>, <<"secret">>, FALSE),
                                  PGUser(<<"bob">>, <<>>, TRUE) >>
          /\ config[1].databases = << PGDatabase(<<"d1">>, <<"alice">>),
                                      PGDatabase(<<"d2">>, None) >>
    /\ (OnlyPipeUsers /\ lc.status = "ok") =>
          LET entries == NonEmptyParts(Strip(environ[Key("POSTGRES_USERS")]), "|") IN
          /\ Len(UserRegs) = Len(entries)
          /\ \A i \in 1..Len(entries) :
                /\ UserRegs[i].superuser <=> Bang(entries[i])
                /\ UserRegs[i].name # <<>> => Head(UserRegs[i].name) # "!"
                /\ UserRegs[i].arg = None <=> ~HasColon(entries[i])
                /\ (HasColon(entries[i]) /\ entries[i][Len(entries[i])] = ":")
                      => UserRegs[i].arg = <<>>
                /\ UserRegs[i].name # <<"postgres">> =>
                      \E k \in 1..Len(config[1].users) :
                          config[1].users[k] = PGUser(UserRegs[i].name, UserRegs[i].arg,
                                                      UserRegs[i].superuser)
          /\ \A i, j \in 1..Len(config[1].users) :
                i < j => \E a, b \in 1..Len(UserRegs) :
                            /\ a < b
                            /\ UserRegs[a].name = config[1].users[i].name
                            /\ UserRegs[b].name = config[1].users[j].name

C8_Witness == environ = EnvPipeExample /\ lc.status = "ok"

\* the first index with neither POSTGRES_USER_i nor POSTGRES_USER_i_FILE set
RECURSIVE FirstGap(_, _)
FirstGap(env, i) ==
    IF KeyX("POSTGRES_USER", i) \in DOMAIN env \/ FileVar(KeyX("POSTGRES_USER", i)) \in DOMAIN env
    THEN FirstGap(env, i + 1)
    ELSE i

\* env without the indexed keys of index gap and above
Below(env, gap) == [k \in {k \in DOMAIN env : k.idx < gap} |-> env[k]]

\* C9: load_config ends as it does on the environment with every key of an
\* index at or above the first gap removed; on the example it returns exactly
\* carol and the databases x, y owned by carol.
C9_GapTermination ==
    Ran_load_config =>
        /\ lc = load_config(Below(environ, FirstGap(environ, 0)), <<>>)
        /\ environ = EnvGapExample =>
              /\ lc.status = "ok"
              /\ config[1].users = << PGUser(<<"carol">>, None, FALSE) >>
              /\ config[1].databases = << PGDatabase(<<"x">>, <<"carol">>),
                                          PGDatabase(<<"y">>, <<"carol">>) >>
              /\ config[1].postgres_password = None

C9_Witness == environ = EnvGapExample /\ lc.status = "ok"

\* the accounts whose resolved password is the empty string
EmptyPassword(cfg) ==
    (IF cfg.postgres_password = <<>> THEN {<<"postgres">>} ELSE {})
    \cup {cfg.users[i].name : i \in {k \in 1..Len(cfg.users) : cfg.users[k].password = <<>>}}

TrustLine(name) == <<"host all ">> \o name \o <<" all trust", "\n">>

\* this invocation ran initdb and appended to pg_hba.conf
HbaWritten == pgdata.PG_VERSION /\ ~marker0 /\ pc # "pg_hba"

\* C10: after the append of a first-run bootstrap pg_hba.conf holds one trust
\* line for each account with the empty password and for no other, then the
\* one md5 line; the warning is printed iff there is a trust line.
C10_TrustRules ==
    /\ HbaWritten =>
          LET lines == pgdata.pg_hba
              E == EmptyPassword(config[1])
          IN  /\ Len(lines) = Cardinality(E) + 1
              /\ lines[Len(lines)] = <<"host all all all md5", "\n">>
              /\ \A i \in 1..(Len(lines) - 1) : \E n \in E : lines[i] = TrustLine(n)
              /\ \A n \in E : \E i \in 1..(Len(lines) - 1) : lines[i] = TrustLine(n)
              /\ WARNING \in out <=> E # {}
    /\ ~HbaWritten => WARNING \notin out

C10_Witness ==
    /\ HbaWritten /\ pc = "handed_off" /\ WARNING \in out
    /\ Len(pgdata.pg_hba) = 2
    /\ \E i \in 1..Len(config[1].users) : config[1].users[i].password = None

\* the keys set together with their _FILE counterpart
DoubleSet(env) == {k \in DOMAIN env : ~k.file /\ FileVar(k) \in DOMAIN env}

\* the keys load_config passes to file_env when nothing stops it: the seven
\* keys without index but POSTGRES_PASSWORD, which is read only when
\* POSTGRES_USER has a value; POSTGRES_USER_i up to the first gap, and the
\* other keys of an index below the first gap
Consulted(env, k) ==
    IF k.idx = -1
    THEN k.base = "POSTGRES_PASSWORD" =>
            (Key("POSTGRES_USER") \in DOMAIN env \/ FileVar(Key("POSTGRES_USER")) \in DOMAIN env)
    ELSE IF k.base = "POSTGRES_USER" THEN k.idx <= FirstGap(env, 0)
    ELSE k.idx < FirstGap(env, 0)

\* C11 as claimed: whenever some key X is set together with X_FILE,
\* load_config does not return and the process exits with status 1.
C11_DoubleAlwaysFatal ==
    (Ran_load_config /\ DoubleSet(environ) # {}) =>
        lc.status # "ok" /\ pc = "exited" /\ exit_code = 1

\* C11 as amended: whenever a key X that load_config consults is set together
\* with X_FILE, load_config does not return and the process exits with status
\* 1, whatever the values and the other keys; when nothing else fails first
\* it ends in error_exit with the message of file_env.  A key that is not
\* consulted may be set twice and load_config still returns.
C11_DoubleConsultedFatal ==
    Ran_load_config =>
        /\ (\E k \in DoubleSet(environ) : Consulted(environ, k)) =>
              /\ lc.status \in {"error_exit", "exception"}
              /\ pc = "exited" /\ exit_code = 1 /\ config = <<>>
        /\ (lc.status = "error_exit" /\ lc.msg = "only one allowed") =>
              \E k \in DoubleSet(environ) : Consulted(environ, k)
        /\ (lc.status = "ok" /\ DoubleSet(environ) # {}) =>
              \A k \in DoubleSet(environ) : k \notin DOMAIN lc.cache

\* POSTGRES_PASSWORD_1 set twice below the gap
C11_Witness ==
    /\ lc.status = "error_exit" /\ lc.msg = "only one allowed"
    /\ KeyX("POSTGRES_PASSWORD", 1) \in DoubleSet(environ)
    /\ pc = "exited" /\ exit_code = 1

\* POSTGRES_PASSWORD is set, by value, and POSTGRES_USER is not set
PasswordWithoutUser ==
    /\ Key("POSTGRES_PASSWORD") \in DOMAIN environ
    /\ Key("POSTGRES_USER") \notin DOMAIN environ
    /\ FileVar(Key("POSTGRES_USER")) \notin DOMAIN environ

\* this invocation ran the whole of setup() on a fresh data directory
Bootstrapped == ~marker0 /\ COMPLETE \in out

\* C12 as claimed: with POSTGRES_PASSWORD set and POSTGRES_USER not set, the
\* config load_config returns has postgres_password equal to the value of
\* POSTGRES_PASSWORD, and a bootstrap that ran through has applied the
\* ALTER USER "postgres" statement with it.
C12_PasswordDefaultsToPostgres ==
    (PasswordWithoutUser /\ config # <<>>) =>
        /\ config[1].postgres_password = Strip(environ[Key("POSTGRES_PASSWORD")])
        /\ (Bootstrapped /\ Strip(environ[Key("POSTGRES_PASSWORD")]) # <<>>) =>
              \E i \in 1..Len(pgdata.sql) :
                  pgdata.sql[i] = psql(<<"ALTER USER \"postgres\" WITH SUPERUSER PASSWORD '">>
                                       \o Strip(environ[Key("POSTGRES_PASSWORD")]) \o <<"'">>)

\* C12, what the code does on POSTGRES_PASSWORD=secret alone: the bootstrap
\* runs through with postgres_password None and no ALTER USER statement.
C12_PasswordIgnored ==
    /\ PasswordWithoutUser /\ environ[Key("POSTGRES_PASSWORD")] = <<"secret">>
    /\ Bootstrapped /\ pc = "handed_off"
    /\ config[1].postgres_password = None
    /\ Key("POSTGRES_PASSWORD") \notin DOMAIN ENV_CACHE
    /\ AlterPostgres(config[1]) = <<>>
    /\ pgdata.sql = << psql_db(<<"postgres">>, REVOKE) >>

\* what inner() computes for var now
Fresh_inner(var, default) == file_env_inner(environ, var, default)

\* C13: of the calls of file_env for one key, only the first runs inner() and
\* so looks at the environment or the file, and every later one returns the
\* value the first returned, whatever its default and whatever the
\* environment and the file are by then; the cache holds that value.
C13_Memoization ==
    /\ \A i, j \in 1..Len(fe_calls) :
          (i < j /\ fe_calls[i].var = fe_calls[j].var) =>
              /\ fe_calls[j].val = fe_calls[i].val
              /\ ~fe_calls[j].read
    /\ \A j \in 1..Len(fe_calls) :
          /\ fe_calls[j].read <=> (\A i \in 1..(j - 1) : fe_calls[i].var # fe_calls[j].var)
          /\ fe_calls[j].var \in DOMAIN ENV_CACHE
          /\ ENV_CACHE[fe_calls[j].var] = fe_calls[j].val

\* a second call for POSTGRES_USER with another default, after the variable
\* was set and the file rewritten: it returns the None of the first call
C13_Witness ==
    /\ Len(fe_calls) >= 2
    /\ fe_calls[1].var = Key("POSTGRES_USER") /\ fe_calls[2].var = Key("POSTGRES_USER")
    /\ fe_calls[1].default = None /\ fe_calls[2].default = <<>>
    /\ fe_calls[1].val = None /\ fe_calls[2].val = None
    /\ files # Files
    /\ Fresh_inner(Key("POSTGRES_USER"), <<>>) = [val |-> <<"bob">>, status |-> "ok"]

\* the first argument the container is started with names a program other
\* than 'postgres': it is not an option
Passthrough == argv0 # <<>> /\ argv0[1] # PostgresCmd /\ Head(argv0[1]) # "-"

\* C14 as claimed: a program name other than 'postgres' goes from main() to
\* the exec of start() with no command run, no configuration resolved and the
\* data directory untouched; with 'postgres' the handoff comes after setup()
\* ran; started as uid 0 with 'postgres', nothing of setup() runs before gosu
\* has replaced the process, and the handoff is made as the unprivileged user.
C14_Dispatcher ==
    /\ Passthrough =>
          /\ pc \in {"main", "start", "handed_off", "exited"}
          /\ argv = argv0
          /\ calls = <<>> /\ lc = NoLocals /\ config = <<>> /\ pgdata = pgdata0
          /\ INDEX_ERROR \notin out
    /\ (argv0 = <<PostgresCmd>> /\ pc = "handed_off") =>
          SKIPPING \in out \/ COMPLETE \in out
    /\ (argv0 = <<PostgresCmd>> /\ uid = 0) =>
          /\ pc \in {"main", "init_with_root", "exited"}
          /\ \A i \in 1..Len(calls) : calls[i].by = "init_with_root"
          /\ lc = NoLocals /\ config = <<>> /\ server = "none"
    /\ (argv0 = <<PostgresCmd>> /\ pc \in {"start", "handed_off"}) => uid = 999

\* C14, what the code does with the one-character program name x: main()
\* ends in the IndexError of sys.argv[1][1], with no exec
C14_OneCharacterName ==
    /\ argv0 = << <<"x">> >>
    /\ pc = "exited" /\ exit_code = 1 /\ INDEX_ERROR \in out
    /\ calls = <<>>

\* the psql calls of this invocation whose statement begins with the words
IsStatement(c, words) == c.cmd = "psql" /\ c.input # <<>> /\ Head(c.input) = words
CallsOf(words) == SelectSeq(calls, LAMBDA c : IsStatement(c, words))

HasToken(sql, t) == \E k \in 1..Len(sql) : sql[k] = t

\* the text after the opening of the password clause, up to its closing quote
RECURSIVE ClausePassword(_)
ClausePassword(sql) ==
    IF sql = <<>> THEN None
    ELSE IF Head(sql) = "PASSWORD '"
    THEN SubSeq(sql, 2, CHOOSE k \in 2..Len(sql) :
                           sql[k] = "'" /\ \A j \in 2..(k - 1) : sql[j] # "'")
    ELSE ClausePassword(Tail(sql))

\* the CREATE USER statements issued so far are for the first users of the
\* config, one each and in order (P(user, sql) holds of each), and for all of
\* them once the bootstrap ran through
CreateUsersSatisfy(P(_, _)) ==
    config # <<>> =>
        LET issued == CallsOf("CREATE USER \"") IN
        /\ Len(issued) <= Len(config[1].users)
        /\ Bootstrapped => Len(issued) = Len(config[1].users)
        /\ \A i \in 1..Len(issued) :
              /\ SubSeq(issued[i].input, 2, 1 + Len(config[1].users[i].name))
                    = config[1].users[i].name
              /\ P(config[1].users[i], issued[i].input)

\* C15 as claimed: the CREATE USER statement of a user has a password clause
\* iff the password is not None (for the empty password the clause
\* PASSWORD ''), and the word SUPERUSER iff the user is a superuser.
C15_ClauseIfSupplied ==
    CreateUsersSatisfy(LAMBDA u, sql :
        /\ HasToken(sql, "PASSWORD '") <=> u.password # None
        /\ u.password # None => ClausePassword(sql) = u.password \o <<"'">>
        /\ HasToken(sql, "SUPERUSER") <=> u.superuser)

\* C15 as amended: the CREATE USER statement of a user has a password clause
\* iff the password is neither None nor the empty string, and then with that
\* password; it has the word SUPERUSER iff the user is a superuser.
C15_ClauseIfNonEmpty ==
    CreateUsersSatisfy(LAMBDA u, sql :
        /\ HasToken(sql, "PASSWORD '") <=> (u.password # None /\ u.password # <<>>)
        /\ HasToken(sql, "PASSWORD '") => ClausePassword(sql) = u.password \o <<"'">>
        /\ HasToken(sql, "SUPERUSER") <=> u.superuser)

\* bob with no password, then carol, a superuser with the empty password
C15_Witness ==
    /\ Bootstrapped /\ pc = "handed_off"
    /\ config[1].users = << PGUser(<<"bob">>, None, FALSE), PGUser(<<"carol">>, <<>>, TRUE) >>
    /\ Len(CallsOf("CREATE USER \"")) = 2
    /\ ~HasToken(CallsOf("CREATE USER \"")[2].input, "PASSWORD '")

\* POSTGRES_DATABASE is set, by value
PrimaryDatabaseSet == Key("POSTGRES_DATABASE") \in DOMAIN environ

\* C16 as claimed: when POSTGRES_DATABASE is set and load_config returns, the
\* databases hold one named by the value of POSTGRES_DATABASE and owned by
\* the value of POSTGRES_USER (none for the name 'postgres'), and no database
\* of a returned config has the name None.
C16_PrimaryDatabase ==
    lc.status = "ok" =>
        /\ \A i \in 1..Len(config[1].databases) : config[1].databases[i].name # None
        /\ (PrimaryDatabaseSet /\ Strip(environ[Key("POSTGRES_DATABASE")]) # <<"postgres">>) =>
              \E i \in 1..Len(config[1].databases) :
                  config[1].databases[i]
                      = PGDatabase(Strip(environ[Key("POSTGRES_DATABASE")]),
                                   lc.cache[Key("POSTGRES_USER")])

\* C16, what the code does on POSTGRES_DATABASE=d1 alone: load_config
\* returns one database, with name None and owner None
C16_NoneDatabase ==
    /\ environ = (Key("POSTGRES_DATABASE") :> <<"d1">>)
    /\ lc.status = "ok"
    /\ config[1].databases = << PGDatabase(None, None) >>

\* the position of token t in sql
TokenAt(sql, t) == CHOOSE k \in 1..Len(sql) : sql[k] = t

\* the name a CREATE USER or CREATE DATABASE statement quotes after its first words
QuotedName(sql, closing) == SubSeq(sql, 2, TokenAt(sql, closing) - 1)

\* the owner of the owner clause of a CREATE DATABASE statement
OwnerOf(sql) == SubSeq(sql, TokenAt(sql, "WITH OWNER \"") + 1, Len(sql) - 1)

\* call k is a CREATE DATABASE with an owner clause
CreatesOwned(k) ==
    IsStatement(calls[k], "CREATE DATABASE \"") /\ HasToken(calls[k].input, "WITH OWNER \"")

\* a CREATE USER for o succeeded before call k
CreatedBefore(o, k) ==
    \E j \in 1..(k - 1) :
        /\ IsStatement(calls[j], "CREATE USER \"")
        /\ QuotedName(calls[j].input, "\" WITH ") = o
        /\ calls[j].rc = 0

\* the registrations of load_config that end up in the config, in order
RegisteredUsers ==
    SelectSeq(lc.regs, LAMBDA r : r.kind = "user" /\ r.name # <<"postgres">>)
RegisteredDatabases ==
    SelectSeq(lc.regs, LAMBDA r : r.kind = "database" /\ r.name # <<"postgres">>)

\* users and databases are resolved in the order they were registered, and
\* the CREATE USER and CREATE DATABASE statements are issued in that order
DeclaredOrder ==
    config # <<>> =>
        /\ config[1].users = [i \in 1..Len(RegisteredUsers) |->
                                 PGUser(RegisteredUsers[i].name, RegisteredUsers[i].arg,
                                        RegisteredUsers[i].superuser)]
        /\ config[1].databases = [i \in 1..Len(RegisteredDatabases) |->
                                     PGDatabase(RegisteredDatabases[i].name,
                                                RegisteredDatabases[i].arg)]
        /\ CreateUsersSatisfy(LAMBDA u, sql : TRUE)
        /\ LET issued == CallsOf("CREATE DATABASE \"") IN
            /\ Len(issued) <= Len(config[1].databases)
            /\ Bootstrapped => Len(issued) = Len(config[1].databases)
            /\ \A i \in 1..Len(issued) :
                  QuotedName(issued[i].input, "\" ") = Str(config[1].databases[i].name)

\* C17 as claimed: statements follow the declared order; the owner of every
\* CREATE DATABASE with an owner clause is 'postgres' or was created by an
\* earlier CREATE USER; no CREATE DATABASE is issued for a database whose
\* owner was never registered as a user.
C17_OwnersExist ==
    /\ DeclaredOrder
    /\ \A k \in 1..Len(calls) :
          CreatesOwned(k) =>
              /\ OwnerOf(calls[k].input) = <<"postgres">> \/ CreatedBefore(OwnerOf(calls[k].input), k)
              /\ OwnerOf(calls[k].input) \in lc.seen_users \cup {<<"postgres">>}

\* C17 as amended: statements follow the declared order; the owner of a
\* CREATE DATABASE with an owner clause, when it was registered as a user, is
\* 'postgres' or was created by an earlier CREATE USER.  The owner of a
\* database is not looked up among the users: the clause is issued for
\* whatever non-empty owner was given.
C17_RegisteredOwnersExist ==
    /\ DeclaredOrder
    /\ \A k \in 1..Len(calls) :
          CreatesOwned(k) =>
              /\ OwnerOf(calls[k].input) \in lc.seen_users =>
                    \/ OwnerOf(calls[k].input) = <<"postgres">>
                    \/ CreatedBefore(OwnerOf(calls[k].input), k)
              /\ \E i \in 1..Len(config[1].databases) :
                    /\ config[1].databases[i].owner = OwnerOf(calls[k].input)
                    /\ config[1].databases[i].name = QuotedName(calls[k].input, "\" ")

\* d1 owned by alice, created after alice
C17_Witness ==
    /\ environ = EnvPipeExample /\ Bootstrapped
    /\ \E k \in 1..Len(calls) :
          /\ CreatesOwned(k)
          /\ OwnerOf(calls[k].input) = <<"alice">>
          /\ CreatedBefore(<<"alice">>, k)

\* the commands setup() has run, and those init_with_root has run
SetupCalls == SelectSeq(calls, LAMBDA c : c.by = "setup")
RootCallsMade == SelectSeq(calls, LAMBDA c : c.by = "init_with_root")

CommandLine(c) == [cmd |-> c.cmd, args |-> c.args]

\* step 1 of setup(): mkdir, chown and chmod of the data directory
Step1 ==
    << [cmd |-> "mkdir", args |-> << <<"-p">>, PGDATA >>],
       [cmd |-> "chown", args |-> << <<"-R">>, PGUID, PGDATA >>],
       [cmd |-> "chmod", args |-> << <<"700">>, PGDATA >>] >>

IsPrefix(a, b) == Len(a) <= Len(b) /\ a = SubSeq(b, 1, Len(a))

\* C18 as claimed: setup() has run no command when it tests PG_VERSION, and
\* an invocation that begins with PG_VERSION present runs no command at all
\* and leaves the data directory as it was.
C18_GuardFirst ==
    /\ pc = "guard" => SetupCalls = <<>>
    /\ (Triggered /\ marker0) => calls = <<>> /\ pgdata = pgdata0

\* C18 as amended: setup() tests PG_VERSION after the mkdir, chown and chmod
\* of step 1 and before anything else; an invocation that begins with
\* PG_VERSION present runs those three commands in setup(), before them the
\* six commands of init_with_root when started as uid 0, and no other
\* command, and leaves the content of the data directory as it was.
C18_GuardAfterStep1 ==
    /\ Triggered =>
          /\ pc \in {"setup", "chown", "chmod", "guard"} =>
                /\ IsPrefix([i \in 1..Len(SetupCalls) |-> CommandLine(SetupCalls[i])], Step1)
                /\ lc = NoLocals /\ config = <<>> /\ pgdata = [pgdata0 EXCEPT !.exists = pgdata.exists]
          /\ pc = "guard" => Len(SetupCalls) = 3
          /\ Len(SetupCalls) > 3 => CommandLine(SetupCalls[4]).cmd = "initdb" /\ ~marker0
    /\ (Triggered /\ marker0) =>
          /\ IsPrefix([i \in 1..Len(SetupCalls) |-> CommandLine(SetupCalls[i])], Step1)
          /\ IsPrefix([i \in 1..Len(RootCallsMade) |-> CommandLine(RootCallsMade[i])], RootCalls)
          /\ calls = RootCallsMade \o SetupCalls
          /\ pgdata = pgdata0
          /\ pc \in {"start", "handed_off"} => Len(SetupCalls) = 3 /\ SKIPPING \in out

\* a second start as uid 0: nine commands, then the skip and the handoff
C18_Witness ==
    /\ Triggered /\ marker0 /\ uid0 = 0 /\ pc = "handed_off"
    /\ Len(calls) = 9 /\ Len(SetupCalls) = 3
    /\ \E i \in 1..Len(calls) : calls[i].by = "setup" /\ calls[i].cmd = "chmod" /\ calls[i].rc # 0

IsPgCtl(c, verb) == c.cmd = "pg_ctl" /\ c.args[Len(c.args)] = verb

\* a statement on a database: CREATE DATABASE, and the REVOKE and GRANT on it
IsDatabaseStatement(c) ==
    \/ IsStatement(c, "CREATE DATABASE \"")
    \/ IsStatement(c, "REVOKE ALL ON schema public FROM public")
    \/ IsStatement(c, "GRANT ALL ON schema public TO \"")

\* C19: pg_ctl start is invoked after a successful initdb and the complete
\* append to pg_hba.conf; every psql statement is issued after a successful
\* pg_ctl start and before any pg_ctl stop; every CREATE USER precedes every
\* CREATE DATABASE; every ALTER SYSTEM follows every statement on a database.
C19_StepOrdering ==
    /\ \A k \in 1..Len(calls) :
          /\ IsPgCtl(calls[k], <<"start">>) =>
                /\ \E j \in 1..(k - 1) : calls[j].cmd = "initdb" /\ calls[j].rc = 0
                /\ pgdata.pg_hba = HbaLines(config[1])
          /\ calls[k].cmd = "psql" =>
                /\ \E j \in 1..(k - 1) : IsPgCtl(calls[j], <<"start">>) /\ calls[j].rc = 0
                /\ \A j \in 1..(k - 1) : ~IsPgCtl(calls[j], <<"stop">>)
          /\ IsPgCtl(calls[k], <<"stop">>) =>
                /\ k = Len(calls)
                /\ Len(SelectSeq(calls, LAMBDA c : c.cmd = "psql")) = Len(Statements(config[1]))
    /\ \A i, j \in 1..Len(calls) :
          /\ (IsStatement(calls[i], "CREATE USER \"") /\ IsStatement(calls[j], "CREATE DATABASE \""))
                => i < j
          /\ (IsStatement(calls[i], "ALTER SYSTEM SET ") /\ IsDatabaseStatement(calls[j]))
                => j < i
    /\ pc \in {"pg_ctl_start", "psql"} =>
          pgdata.PG_VERSION /\ pgdata.pg_hba = HbaLines(config[1])

\* a bootstrap that issued statements of every kind
C19_Witness ==
    /\ Bootstrapped /\ pc = "handed_off"
    /\ CallsOf("ALTER USER \"postgres\" WITH SUPERUSER PASSWORD '") # <<>>
    /\ Len(CallsOf("CREATE USER \"")) = 2
    /\ Len(CallsOf("CREATE DATABASE \"")) = 2
    /\ CallsOf("GRANT ALL ON schema public TO \"") # <<>>
    /\ CallsOf("ALTER SYSTEM SET ") # <<>>

Invoked(verb) == \E i \in 1..Len(calls) : IsPgCtl(calls[i], verb)

\* the process has ended
Ended == pc \in {"exited", "handed_off"}

\* C20 as claimed: a process that ended after a successful pg_ctl start has
\* invoked pg_ctl stop.
C20_AlwaysStopped ==
    (Ended /\ Succeeded("pg_ctl", <<"start">>)) => Invoked(<<"stop">>)

\* C20 as amended: pg_ctl stop is invoked only after every statement of the
\* bootstrap succeeded; a process that hands off after a successful pg_ctl
\* start has stopped the server; a process that exits after a successful
\* pg_ctl start, because a psql statement or pg_ctl stop failed, leaves the
\* server running, and when it was a psql statement that failed, has not
\* invoked pg_ctl stop.
C20_StoppedOnlyOnSuccess ==
    Succeeded("pg_ctl", <<"start">>) =>
        /\ Invoked(<<"stop">>) =>
              /\ \A i \in 1..Len(calls) : calls[i].cmd = "psql" => calls[i].rc = 0
              /\ Len(SelectSeq(calls, LAMBDA c : c.cmd = "psql")) = Len(Statements(config[1]))
        /\ pc = "handed_off" => Succeeded("pg_ctl", <<"stop">>) /\ server = "stopped"
        /\ pc = "exited" =>
              \/ server = "running" /\ ~Succeeded("pg_ctl", <<"stop">>)
              \/ server = "stopped" /\ Succeeded("pg_ctl", <<"stop">>) /\ COMPLETE \in out
        /\ (pc = "exited" /\ calls[Len(calls)].cmd = "psql") =>
              /\ calls[Len(calls)].rc # 0 \/ idx < Len(Statements(config[1]))
              /\ ~Invoked(<<"stop">>)
              /\ server = "running"

\* the second statement fails: the process exits with the server running
C20_Witness ==
    /\ pc = "exited" /\ exit_code = 1
    /\ Succeeded("pg_ctl", <<"start">>)
    /\ calls[Len(calls)].cmd = "psql" /\ calls[Len(calls)].rc # 0
    /\ idx = 1 /\ Len(pgdata.sql) = 1
    /\ server = "running" /\ ~Invoked(<<"stop">>)

====
